---- MODULE Spec2Model ----
(***************************************************************************)
(* Model of the persistor of packages/toolkit/src/persistor/index.ts:      *)
(* createPersistor (meta-state slice, middleware, enhancer, persistSlice), *)
(* the merge strategies, getStoredState and storeState, on a store with    *)
(* the two slices of the persistor test (counter, counter2).               *)
(*                                                                         *)
(* A dispatch is synchronous, so one dispatch, with every dispatch nested  *)
(* in it, is one step.  Storage reads and writes are asynchronous: issuing *)
(* one adds it to the pending reads or writes, and its settlement is a     *)
(* step of its own.                                                        *)
(***************************************************************************)
EXTENDS Integers, Sequences, FiniteSets, Bags, TLC

\* ------------------------------------------------------------------ bounds

\* increment is not dispatched to a counter that already reads MaxVal
MaxVal == 1
\* storage reads pending at one time, per key
MaxReads == 1
\* storage writes pending after a dispatch to the constructed store
MaxWrites == 2
\* distinct rejected storage calls and failed deserializes in one run
MaxErrors == 1

\* ------------------------------------------------------------------ values

\* JavaScript values, tagged: null, undefined, numbers, booleans, strings and
\* plain objects (f maps the object's own keys to values)
Null == [t |-> "null"]
Undefined == [t |-> "undefined"]
Num(n) == [t |-> "num", n |-> n]
Bool(b) == [t |-> "bool", b |-> b]
Str(s) == [t |-> "str", s |-> s]
Rec(f) == [t |-> "rec", f |-> f]

isPlainObject(v) == v.t = "rec"

\* v?.[key]
Get(v, key) ==
    IF isPlainObject(v) /\ key \in DOMAIN v.f THEN v.f[key] ELSE Undefined

\* Object.keys(v) of a plain object
ObjectKeys(v) == IF isPlainObject(v) THEN DOMAIN v.f ELSE {}

\* ------------------------------------------------------------------ merges

hardMerge(inbound, original, reduced) == inbound

\* a shallow merge that takes every inbound field
shallowMerge_inboundWins(inbound, original, reduced) ==
    IF ~isPlainObject(reduced) THEN inbound
    ELSE Rec([key \in DOMAIN reduced.f \cup ObjectKeys(inbound) |->
                IF key \in ObjectKeys(inbound)
                THEN inbound.f[key] ELSE reduced.f[key]])

shallowMerge(inbound, original, reduced) ==
    IF ~isPlainObject(reduced) THEN inbound
    ELSE LET taken == {key \in ObjectKeys(inbound) :
                          Get(original, key) = Get(reduced, key)}
         IN  Rec([key \in DOMAIN reduced.f \cup taken |->
                    IF key \in taken THEN inbound.f[key] ELSE reduced.f[key]])

twoLevelMerge(inbound, original, reduced) ==
    IF ~isPlainObject(reduced) THEN inbound
    ELSE LET taken == {key \in ObjectKeys(inbound) :
                          Get(original, key) = Get(reduced, key)}
         IN  Rec([key \in DOMAIN reduced.f \cup taken |->
                    IF key \in taken
                    THEN shallowMerge(inbound.f[key], Get(original, key),
                                      Get(reduced, key))
                    ELSE reduced.f[key]])

Strategies == {"hardMerge", "shallowMerge", "twoLevelMerge"}

Merge(strategy, inbound, original, reduced) ==
    CASE strategy = "hardMerge" -> hardMerge(inbound, original, reduced)
      [] strategy = "shallowMerge" -> shallowMerge(inbound, original, reduced)
      [] OTHER -> twoLevelMerge(inbound, original, reduced)

\* ------------------------------------------------------------------ codec

\* what storage.getItem resolves to for a key that holds nothing
NoItem == [t |-> "noitem"]
\* a stored text that JSON.parse rejects
Corrupt == [t |-> "corrupt"]

\* JSON.stringify of a value
Serialize(v) == [t |-> "json", v |-> v]

\* JSON.parse throws on Corrupt
DeserializeThrows(stored) == stored = Corrupt

\* JSON.parse: of null it is null, of a JSON text the value the text encodes
Deserialize(stored) == IF stored = NoItem THEN Null ELSE stored.v

\* ------------------------------------------------------------------ state

\* the coordinator instances; persistUid is the nanoid of each
Instances == {"A", "B"}
persistUid(i) == i
\* the coordinator whose slice reducer is mounted under reducerPath
SliceOwner == "A"

\* the persisted slices, in the order persistSlice registered them
KeyOrder == <<"counter", "counter2">>
Keys == {KeyOrder[n] : n \in 1..Len(KeyOrder)}

\* internalRegistry of a coordinator: both slices are persisted through the
\* coordinator whose reducer is mounted, the other registers none
internalRegistry(i) == IF i = SliceOwner THEN Keys ELSE {}
HasRegistered(key) == CHOOSE i \in Instances : key \in internalRegistry(i)

VARIABLES
    chain,        \* the enhancers given to the store, outermost first
    merge,        \* config.merge of each registered slice
    throws,       \* the slices whose config.serialize throws
    built,        \* how many enhancers have wrapped the store so far
    state,        \* store.getState()
    initialized,  \* the middleware closure's flag, per instance
    storage,      \* what storage holds, per key
    reads,        \* storage.getItem calls not settled yet, per key
    writes,       \* the bag of storage.setItem calls not settled yet
    errors,       \* what onError has been called with
    storage0,     \* what storage held before the store was constructed
    touched,      \* slices an organic event has changed
    resetDone,    \* a reset event has been dispatched
    last,         \* the last dispatch: its event and what it did
    merging       \* a call of a merge strategy: its arguments and its result

vars == <<chain, merge, throws, built, state, initialized, storage, reads, writes,
          errors, storage0, touched, resetDone, last, merging>>

\* ---------------------------------------------------------------- events

Event(type, key, val) == [type |-> type, key |-> key, val |-> val]
middlewareRegistered(uid) == Event("middlewareRegistered", "", Str(uid))
hydrate(name, st) == Event("hydrate", name, st)
startHydrate == Event("startHydrate", "", Undefined)
reset == Event("reset", "", Undefined)
increment(name) == Event("increment", name, Undefined)
\* an event no reducer handles
other == Event("other", "", Undefined)
\* redux's own event, reduced when the store is created
INITEvent == Event("@@INIT", "", Undefined)

\* --------------------------------------------------------------- reducers

\* initialState of the test's slices
sliceInitialState(name) ==
    IF name = "counter" THEN Num(0) ELSE Rec([value |-> Num(0)])

\* increment is dispatched only where the slice's case reducer is defined
\* and the counter is below MaxVal (null + 1 is 1 in JavaScript)
CanIncrement(name, s) ==
    IF name = "counter"
    THEN \/ s = Null
         \/ s.t = "num" /\ s.n < MaxVal
    ELSE /\ isPlainObject(s)
         /\ Get(s, "value").t = "num"
         /\ Get(s, "value").n < MaxVal

\* case reducers that take every event of their slice, a HydrateEvent for
\* its key too, for increment
sliceReducer_anyEvent(name, s, action) ==
    IF action.key = name /\ CanIncrement(name, s)
    THEN IF name = "counter"
         THEN Num((IF s = Null THEN 0 ELSE s.n) + 1)
         ELSE Rec([s.f EXCEPT !["value"] = Num(s.f["value"].n + 1)])
    ELSE s

\* the case reducers of counterSlice and counterSlice2
sliceReducer(name, s, action) ==
    IF action.type = "increment" /\ action.key = name /\ CanIncrement(name, s)
    THEN IF name = "counter"
         THEN Num((IF s = Null THEN 0 ELSE s.n) + 1)
         ELSE Rec([s.f EXCEPT !["value"] = Num(s.f["value"].n + 1)])
    ELSE s

\* a wrapped reducer that merges on the HydrateEvent of any key
wrapped_anyKey(name, s, action) ==
    LET reducedState == sliceReducer(name, s, action)
    IN  IF action.type = "hydrate"
        THEN Merge(merge[name], action.val, s, reducedState)
        ELSE reducedState

\* the reducer persistSlice returns
wrapped(name, s, action) ==
    LET reducedState == sliceReducer(name, s, action)
    IN  IF action.type = "hydrate" /\ action.key = name
        THEN Merge(merge[name], action.val, s, reducedState)
        ELSE reducedState

metaInitialState == [hydrated |-> FALSE, registered |-> "false"]

\* metaReducer with the test of the payload against persistUid inverted
metaReducer_inverted(s, action) ==
    CASE action.type = "middlewareRegistered" ->
           [s EXCEPT !.registered =
               IF s.registered = "conflict"
                  \/ Str(persistUid(SliceOwner)) = action.val
               THEN "conflict" ELSE "true"]
      [] action.type = "hydrate" -> [s EXCEPT !.hydrated = TRUE]
      [] action.type = "startHydrate" -> s
      [] action.type = "reset" -> metaInitialState
      [] OTHER -> s

\* metaReducer without the test of the payload against persistUid
metaReducer_anyUid(s, action) ==
    CASE action.type = "middlewareRegistered" ->
           [s EXCEPT !.registered =
               IF s.registered = "conflict" THEN "conflict" ELSE "true"]
      [] action.type = "hydrate" -> [s EXCEPT !.hydrated = TRUE]
      [] action.type = "startHydrate" -> s
      [] action.type = "reset" -> metaInitialState
      [] OTHER -> s

\* metaReducer without the test for a conflict already recorded
metaReducer_forgetful(s, action) ==
    CASE action.type = "middlewareRegistered" ->
           [s EXCEPT !.registered =
               IF Str(persistUid(SliceOwner)) # action.val
               THEN "conflict" ELSE "true"]
      [] action.type = "hydrate" -> [s EXCEPT !.hydrated = TRUE]
      [] action.type = "startHydrate" -> s
      [] action.type = "reset" -> metaInitialState
      [] OTHER -> s

\* the case reducers of the meta-state slice
metaReducer(s, action) ==
    CASE action.type = "middlewareRegistered" ->
           [s EXCEPT !.registered =
               IF s.registered = "conflict"
                  \/ Str(persistUid(SliceOwner)) # action.val
               THEN "conflict" ELSE "true"]
      [] action.type = "hydrate" -> [s EXCEPT !.hydrated = TRUE]
      [] action.type = "startHydrate" -> s
      [] action.type = "reset" -> metaInitialState
      [] OTHER -> s

\* the combined reducer of the store
rootReducer(st, action) ==
    [slices |-> [name \in Keys |-> wrapped(name, st.slices[name], action)],
     persistor |-> metaReducer(st.persistor, action)]

\* the state the store starts with
rootInitialState ==
    [slices |-> [name \in Keys |-> sliceInitialState(name)],
     persistor |-> metaInitialState]

\* whether the combined reducer returned a new object: a slice's state is
\* new when its value changed, and a merge that returns an object returns
\* a new one (a copy of reduced, or the parsed inbound object)
IsNewState(st, action, next) ==
    \/ st.persistor # next.persistor
    \/ \E name \in Keys :
        \/ st.slices[name] # next.slices[name]
        \/ /\ action.type = "hydrate" /\ action.key = name
           /\ isPlainObject(next.slices[name])

\* the state as the value JSON.stringify walks
StateValue(st) ==
    Rec([name \in Keys \cup {"persistor"} |->
            IF name = "persistor"
            THEN Rec([hydrated |-> Bool(st.persistor.hydrated),
                      registered |->
                          IF st.persistor.registered = "conflict"
                          THEN Str("conflict")
                          ELSE Bool(st.persistor.registered = "true")])
            ELSE st.slices[name]])

\* --------------------------------------------------------------- dispatch

\* One synchronous dispatch works on a record w: the store's state, the
\* middleware flags, the pending storage calls and the errors reported, with
\*   ver           how many times the reducer returned a new state object
\*   issuedReads   the keys getItem was called for during this dispatch
\*   issuedWrites  the setItem calls made during this dispatch
\*   reduced       the events that reached the reducer, in order
\*   result        what the dispatch returned: the event ("action", what the
\*                 store's own dispatch returns) or the Promise.all of the
\*                 reads ("promise")
World ==
    [state |-> state, initialized |-> initialized, reads |-> reads,
     writes |-> writes, errors |-> errors, ver |-> 0,
     issuedReads |-> {}, issuedWrites |-> EmptyBag, reduced |-> <<>>,
     result |-> "none"]

\* A failure starts as a throw (serialize, deserialize) or as the rejection
\* of a promise (getItem, setItem), and surfaces somewhere: "throw" is thrown
\* out of the dispatch that was running, "reject" is the rejection of a
\* promise nothing handles (for a read, of the promise that dispatch
\* returned), "onError" is the error callback.

\* a function that is not async lets a throw inside it through
AsyncFunction_plain(outcome) == outcome

\* an async function (getStoredState, storeState): a throw inside it is the
\* rejection of the promise it returns
AsyncFunction(outcome) == IF outcome = "throw" THEN "reject" ELSE outcome

\* promise.catch(onError): a rejection goes to onError; a throw of the call
\* that was to make the promise is not the promise's
Catch(outcome) == IF outcome = "reject" THEN "onError" ELSE outcome

\* try { await ... } catch (e) { onError?.(e) }: a throw and the rejection
\* of the awaited promise both go to onError
TryCatch(outcome) == "onError"

\* where the failure of each kind surfaces
Sink(kind) ==
    CASE kind = "serialize" -> Catch(AsyncFunction("throw"))
      [] kind = "write" -> Catch(AsyncFunction("reject"))
      [] kind = "read" -> TryCatch(AsyncFunction("reject"))
      [] kind = "deserialize" -> TryCatch(AsyncFunction("throw"))

Error(kind, name) == [kind |-> kind, key |-> name, to |-> Sink(kind)]

\* the store's own dispatch: reduce the event
baseDispatch(w, action) ==
    LET next == rootReducer(w.state, action)
    IN  [w EXCEPT !.state = next,
                  !.ver = IF IsNewState(w.state, action, next) THEN @ + 1 ELSE @,
                  !.reduced = Append(@, action),
                  !.result = "action"]

\* a storeState that coalesces: the call takes the place of the pending
\* calls for the same key
storeState_coalesce(w, name, st) ==
    IF name \in throws
    THEN [w EXCEPT !.errors = @ \cup {Error("serialize", name)}]
    ELSE LET call == [key |-> name, val |-> Serialize(st)]
             others(bag) == [c \in {c \in DOMAIN bag : c.key # name} |-> bag[c]]
         IN  [w EXCEPT !.writes = others(@) (+) SetToBag({call}),
                       !.issuedWrites = others(@) (+) SetToBag({call})]

\* storeState(name, st, entry), and the .catch(onError) on its promise: a
\* serialize that throws rejects the promise before setItem is called
storeState(w, name, st) ==
    IF name \in throws
    THEN [w EXCEPT !.errors = @ \cup {Error("serialize", name)}]
    ELSE LET call == [key |-> name, val |-> Serialize(st)]
         IN  [w EXCEPT !.writes = @ (+) SetToBag({call}),
                       !.issuedWrites = @ (+) SetToBag({call})]

\* a write-back that a failing key ends: the entries after it are not stored
RECURSIVE writeBack_abort(_, _, _)
writeBack_abort(w, i, n) ==
    IF n > Len(KeyOrder) THEN w
    ELSE IF KeyOrder[n] \in internalRegistry(i) /\ KeyOrder[n] \in throws
         THEN storeState(w, KeyOrder[n], StateValue(w.state))
         ELSE writeBack_abort(IF KeyOrder[n] \in internalRegistry(i)
                              THEN storeState(w, KeyOrder[n], StateValue(w.state))
                              ELSE w,
                              i, n + 1)

\* Object.entries(internalRegistry).forEach(storeState(name, stateAfter, entry)),
\* from the n-th entry on
RECURSIVE writeBack(_, _, _)
writeBack(w, i, n) ==
    IF n > Len(KeyOrder) THEN w
    ELSE writeBack(IF KeyOrder[n] \in internalRegistry(i)
                   THEN storeState(w, KeyOrder[n], StateValue(w.state))
                   ELSE w,
                   i, n + 1)

\* getStoredState(name, entry) up to its await: getItem is called
getStoredState(w, name) ==
    [w EXCEPT !.reads[name] = @ + 1, !.issuedReads = @ \cup {name}]

\* Object.entries(internalRegistry).map(getStoredState ...), from the n-th
\* entry on
RECURSIVE readAll(_, _, _)
readAll(w, i, n) ==
    IF n > Len(KeyOrder) THEN w
    ELSE readAll(IF KeyOrder[n] \in internalRegistry(i)
                 THEN getStoredState(w, KeyOrder[n])
                 ELSE w,
                 i, n + 1)

\* the event on which the middleware reads storage instead of forwarding:
\* hydrate.match(action)
ReadsStorage(action) == action.type = "hydrate"

\* a middleware that broadcasts its registration on organic events too
Rebroadcasts_organic(action) == action.type \in {"reset", "increment"}

\* the event on which the middleware broadcasts its registration again:
\* reset.match(action)
Rebroadcasts(action) == action.type = "reset"

\* the write-back without the comparison of the states
StateChanged_always(stateBefore, stateAfter) == TRUE

\* stateBefore !== stateAfter, on the count of new state objects
StateChanged(stateBefore, stateAfter) == stateBefore # stateAfter

\* dispatch(action) entering the chain at position pos: the middleware of
\* chain[pos], whose next is position pos + 1; past the last middleware it is
\* the store's own dispatch.  The dispatch a middleware is given enters at
\* its own position: each enhancer applies its middleware to the store the
\* enhancers inside it made.
RECURSIVE dispatch(_, _, _)
dispatch(w, pos, action) ==
    IF pos > Len(chain) THEN baseDispatch(w, action)
    ELSE
    LET i == chain[pos]
        w1 == IF ~w.initialized[i]
              THEN dispatch([w EXCEPT !.initialized[i] = TRUE], pos,
                            middlewareRegistered(persistUid(i)))
              ELSE w
        stateBefore == w1.ver
        w2 == IF Rebroadcasts(action)
              THEN dispatch(w1, pos, middlewareRegistered(persistUid(i)))
              ELSE w1
    IN  IF ~Rebroadcasts(action) /\ ReadsStorage(action)
        THEN [readAll(w2, i, 1) EXCEPT !.result = "promise"]
        ELSE LET w3 == dispatch(w2, pos + 1, action)
             IN  IF StateChanged(stateBefore, w3.ver)
                 THEN writeBack(w3, i, 1)
                 ELSE w3

\* position of an instance's middleware in the chain
PosOf(i) == CHOOSE pos \in 1..Len(chain) : chain[pos] = i

\* the errors of storage calls and deserializes among those reported
StorageErrors(errs) == {e \in errs : e.kind # "serialize"}

\* the pending storage calls and the errors stay within the bounds
WithinBounds(w) ==
    /\ \A name \in Keys : w.reads[name] <= MaxReads
    /\ BagCardinality(w.writes) <= MaxWrites
    /\ Cardinality(StorageErrors(w.errors)) <= MaxErrors

\* what a dispatch leaves behind; last records the event, who dispatched it
\* (by), the meta-state before it (was), whether the state object changed,
\* the storage calls and reductions the dispatch made, and what it returned
Commit(w, action, by) ==
    /\ state' = w.state
    /\ initialized' = w.initialized
    /\ reads' = w.reads
    /\ writes' = w.writes
    /\ errors' = w.errors
    /\ last' = [action |-> action, by |-> by, was |-> state.persistor,
                changed |-> w.ver > 0, reads |-> w.issuedReads,
                writes |-> w.issuedWrites, reduced |-> w.reduced,
                result |-> w.result]
    /\ UNCHANGED merging

\* ------------------------------------------------------------------ store

\* the enhancer lists a store is configured with: one coordinator, or two
Chains == {<<"A">>, <<"A", "B">>, <<"B", "A">>}

\* what storage may hold before the store is constructed: a counter and
\* nothing for counter2, or a text that does not parse and a counter2
Stored ==
    {[counter |-> Serialize(Num(2)), counter2 |-> NoItem],
     [counter |-> Corrupt, counter2 |-> Serialize(Rec([value |-> Num(2)]))]}

\* the values a HydrateEvent dispatched from outside may carry: what
\* getStoredState returns for a key that storage may hold
HydrateValues(name) ==
    {Deserialize(st[name]) : st \in {x \in Stored : x[name] # Corrupt}}

\* no dispatch has been made, or a storage call settled after the last one
NoDispatch(by) ==
    [action |-> INITEvent, by |-> by, was |-> metaInitialState,
     changed |-> FALSE, reads |-> {}, writes |-> EmptyBag, reduced |-> <<>>,
     result |-> "none"]

\* no merge strategy is called on its own
NoMerge ==
    [inbound |-> Undefined, original |-> Undefined, reduced |-> Undefined,
     strategy |-> "none", result |-> Undefined]

Init ==
    /\ chain \in Chains
    /\ merge = [name \in Keys |-> "shallowMerge"]
    /\ built = 0
    /\ state = rootInitialState
    /\ initialized = [i \in Instances |-> FALSE]
    /\ throws \in {{}, {"counter"}, {"counter2"}}
    /\ storage0 \in Stored
    /\ storage = storage0
    /\ reads = [name \in Keys |-> 0]
    /\ writes = EmptyBag
    /\ errors = {}
    /\ touched = {}
    /\ resetDone = FALSE
    /\ last = NoDispatch("none")
    /\ merging = NoMerge

\* the store has been returned to the caller
Constructed == built = Len(chain)

\* enhancer: the innermost enhancer not applied yet wraps the store with its
\* middleware and dispatches startHydrate through it
Enhance ==
    /\ built < Len(chain)
    /\ Commit(dispatch(World, Len(chain) - built, startHydrate),
              startHydrate, "enhancer")
    /\ built' = built + 1
    /\ UNCHANGED <<chain, merge, throws, storage, storage0, touched, resetDone>>

\* store.dispatch(action) by the application
UserDispatch(action) ==
    /\ Constructed
    /\ WithinBounds(dispatch(World, 1, action))
    /\ Commit(dispatch(World, 1, action), action, "user")
    /\ UNCHANGED <<chain, merge, throws, built, storage, storage0>>

DispatchIncrement(name) ==
    /\ CanIncrement(name, state.slices[name])
    /\ UserDispatch(increment(name))
    /\ touched' = touched \cup {name}
    /\ UNCHANGED resetDone

DispatchOther ==
    /\ UserDispatch(other)
    /\ UNCHANGED <<touched, resetDone>>

DispatchReset ==
    /\ UserDispatch(reset)
    /\ resetDone' = TRUE
    /\ UNCHANGED touched

DispatchStartHydrate ==
    /\ UserDispatch(startHydrate)
    /\ UNCHANGED <<touched, resetDone>>

DispatchHydrate(name, val) ==
    /\ UserDispatch(hydrate(name, val))
    /\ UNCHANGED <<touched, resetDone>>

\* a getItem call is rejected, or the deserialize of what it resolved to
\* throws: the catch of the middleware's async callback calls onError
ReadFail(name, rejected) ==
    /\ Constructed
    /\ reads[name] > 0
    /\ rejected \/ DeserializeThrows(storage[name])
    /\ reads' = [reads EXCEPT ![name] = @ - 1]
    /\ errors' = errors \cup
                   {Error(IF rejected THEN "read" ELSE "deserialize", name)}
    /\ Cardinality(StorageErrors(errors')) <= MaxErrors
    /\ last' = NoDispatch("storage")
    /\ UNCHANGED <<chain, merge, throws, built, state, initialized, storage, writes,
                   storage0, touched, resetDone, merging>>

\* a getItem call resolves with what storage holds, and the middleware's
\* async callback dispatches the HydrateEvent
ReadSettle(name) ==
    /\ Constructed
    /\ reads[name] > 0
    /\ ~DeserializeThrows(storage[name])
    /\ WithinBounds(dispatch([World EXCEPT !.reads[name] = @ - 1],
                             PosOf(HasRegistered(name)),
                             hydrate(name, Deserialize(storage[name]))))
    /\ Commit(dispatch([World EXCEPT !.reads[name] = @ - 1],
                       PosOf(HasRegistered(name)),
                       hydrate(name, Deserialize(storage[name]))),
              hydrate(name, Deserialize(storage[name])), "middleware")
    /\ UNCHANGED <<chain, merge, throws, built, storage, storage0, touched, resetDone>>

\* a setItem call settles: storage holds the value, or the call is rejected
\* and the catch on storeState's promise calls onError
WriteSettle(call, ok) ==
    /\ Constructed
    /\ BagIn(call, writes)
    /\ writes' = writes (-) SetToBag({call})
    /\ IF ok
       THEN /\ storage' = [storage EXCEPT ![call.key] = call.val]
            /\ UNCHANGED errors
       ELSE /\ errors' = errors \cup {Error("write", call.key)}
            /\ Cardinality(StorageErrors(errors')) <= MaxErrors
            /\ UNCHANGED storage
    /\ last' = NoDispatch("storage")
    /\ UNCHANGED <<chain, merge, throws, built, state, initialized, reads, storage0,
                   touched, resetDone, merging>>

Next ==
    \/ Enhance
    \/ \E name \in Keys : DispatchIncrement(name)
    \/ DispatchOther
    \/ DispatchReset
    \/ DispatchStartHydrate
    \/ \E name \in Keys :
          \E val \in HydrateValues(name) : DispatchHydrate(name, val)
    \/ \E name \in Keys, rejected \in BOOLEAN : ReadFail(name, rejected)
    \/ \E name \in Keys : ReadSettle(name)
    \/ \E call \in BagToSet(writes), ok \in BOOLEAN : WriteSettle(call, ok)

Spec == Init /\ [][Next]_vars

\* ---------------------------------------------------------------- reducer

\* The store's reducer alone, as the store's own dispatch (the next of the
\* innermost middleware) runs it: each step reduces one event.

\* the values a HydrateEvent may carry for a key: what getStoredState
\* returns for a key that holds nothing or a stored value
Inbound(name) == {Null} \cup HydrateValues(name)

InitR ==
    /\ chain = <<>>
    /\ merge \in [Keys -> Strategies]
    /\ throws = {}
    /\ built = 0
    /\ state = rootInitialState
    /\ initialized = [i \in Instances |-> FALSE]
    /\ storage0 = [name \in Keys |-> NoItem]
    /\ storage = storage0
    /\ reads = [name \in Keys |-> 0]
    /\ writes = EmptyBag
    /\ errors = {}
    /\ touched = {}
    /\ resetDone = FALSE
    /\ last = NoDispatch("none")
    /\ merging = NoMerge

Reduce(action) ==
    /\ Commit(baseDispatch(World, action), action, "reducer")
    /\ UNCHANGED <<chain, merge, throws, built, storage, storage0>>

ReduceIncrement(name) ==
    /\ CanIncrement(name, state.slices[name])
    /\ Reduce(increment(name))
    /\ touched' = touched \cup {name}
    /\ UNCHANGED resetDone

ReduceRegistered(i) ==
    /\ Reduce(middlewareRegistered(persistUid(i)))
    /\ UNCHANGED <<touched, resetDone>>

ReduceHydrate(name, val) ==
    /\ Reduce(hydrate(name, val))
    /\ UNCHANGED <<touched, resetDone>>

ReduceStartHydrate ==
    /\ Reduce(startHydrate)
    /\ UNCHANGED <<touched, resetDone>>

ReduceReset ==
    /\ Reduce(reset)
    /\ resetDone' = TRUE
    /\ UNCHANGED touched

NextR ==
    \/ \E name \in Keys : ReduceIncrement(name)
    \/ \E i \in Instances : ReduceRegistered(i)
    \/ \E name \in Keys : \E val \in Inbound(name) : ReduceHydrate(name, val)
    \/ ReduceStartHydrate
    \/ ReduceReset

SpecR == InitR /\ [][NextR]_vars

\* ------------------------------------------------------- merge strategies

\* The merge strategies alone: each is a pure function of (inbound, original,
\* reduced), called once on arguments drawn from the values below.

\* the top-level fields and the field values of the records merged
Fields == {"a", "b"}
FieldValues == {Num(1), Num(2), Num(9)}

\* the plain objects with some of the fields
Records ==
    UNION {{Rec(f) : f \in [D -> FieldValues]} : D \in SUBSET Fields}

InitM ==
    /\ chain = <<>>
    /\ merge = [name \in Keys |-> "shallowMerge"]
    /\ throws = {}
    /\ built = 0
    /\ state = rootInitialState
    /\ initialized = [i \in Instances |-> FALSE]
    /\ storage0 = [name \in Keys |-> NoItem]
    /\ storage = storage0
    /\ reads = [name \in Keys |-> 0]
    /\ writes = EmptyBag
    /\ errors = {}
    /\ touched = {}
    /\ resetDone = FALSE
    /\ last = NoDispatch("none")
    /\ \E inbound \in Records \cup {Null, Num(1)},
          original \in Records \cup {Undefined},
          reduced \in Records \cup {Num(1)} :
            merging = [NoMerge EXCEPT !.inbound = inbound,
                                      !.original = original,
                                      !.reduced = reduced]

\* merge(inbound, original, reduced)
CallMerge(strategy) ==
    /\ merging.strategy = "none"
    /\ merging' =
         [merging EXCEPT !.strategy = strategy,
                         !.result = Merge(strategy, merging.inbound,
                                          merging.original, merging.reduced)]
    /\ UNCHANGED <<chain, merge, throws, built, state, initialized, storage,
                   reads, writes, errors, storage0, touched, resetDone, last>>

NextM == \E strategy \in Strategies : CallMerge(strategy)

SpecM == InitM /\ [][NextM]_vars

\* ----------------------------------------------------------------- claims

registered == state.persistor.registered
hydrated == state.persistor.hydrated

\* the last step was a dispatch through the middleware chain
Dispatched == last.by \in {"enhancer", "user", "middleware"}

\* the instance whose middleware the last dispatch from outside entered
Entered ==
    IF last.by = "enhancer" THEN chain[Len(chain) - built + 1] ELSE chain[1]

\* no storage read is pending
ReadsSettled == \A name \in Keys : reads[name] = 0

\* storage held a value for the key before construction, and it parses
Seeded(name) == storage0[name] \notin {NoItem, Corrupt}

\* the stored value merged against the slice's untouched reduced value
MergedSeed(name) ==
    Merge(merge[name], Deserialize(storage0[name]), sliceInitialState(name),
          sliceInitialState(name))

\* the keys a bag of setItem calls writes
WrittenKeys(bag) == {call.key : call \in BagToSet(bag)}

\* C1: with one coordinator, its enhancer installed and its reducer mounted,
\* registered is true once store construction has returned, and stays true
\* as long as no reset event has been dispatched.
C1_RegisteredTrue ==
    (chain = <<SliceOwner>> /\ Constructed /\ ~resetDone)
        => registered = "true"

\* C1's case: a single coordinator, the store constructed and an organic
\* event dispatched after it
C1_Witness ==
    /\ chain = <<SliceOwner>> /\ Constructed /\ ~resetDone
    /\ last.by = "user" /\ last.action.type = "increment"
    /\ registered = "true"

\* C2: once the store is constructed and no read is pending, a key that
\* storage held a value for, and that no organic event has touched, has the
\* stored value merged against its untouched reduced value.
C2_SeedHydrated ==
    \A name \in Keys :
        (Constructed /\ ReadsSettled /\ Seeded(name) /\ name \notin touched)
            => state.slices[name] = MergedSeed(name)

\* C3: a dispatch of startHydrate, by the enhancer or by the application,
\* issues a storage read for every entry of the registry of the middleware
\* it enters.
C3_StartHydrateReads ==
    (last.by \in {"enhancer", "user"} /\ last.action.type = "startHydrate")
        => internalRegistry(Entered) \subseteq last.reads

\* C4: reducing the HydrateEvent of a null read (storage held nothing for
\* the key) leaves the key's state what its own reducer produced, for every
\* merge strategy and for a record as for a primitive.
C4_NullReadKeepsOrganic ==
    [][\A name \in Keys :
          (last'.by = "reducer" /\ last'.action = hydrate(name, Null))
              => state'.slices[name] = state.slices[name]]_vars

\* C5: every storage write a dispatch issues for a key carries the
\* serialization of that key's own value in the state after the dispatch.
C5_WritesOwnValue ==
    \A call \in BagToSet(last.writes) :
        call.val = Serialize(state.slices[call.key])

\* C6: once the middlewares of two coordinators have both fired, and until
\* a reset, registered is "conflict".
C6_TwoInstancesConflict ==
    ((\A i \in Instances : initialized[i]) /\ ~resetDone)
        => registered = "conflict"

\* C6's case: two enhancers, the store constructed, both middlewares fired
C6_Witness ==
    /\ Len(chain) = 2 /\ Constructed /\ ~resetDone
    /\ \A i \in Instances : initialized[i]
    /\ last.was.registered = "true"
    /\ registered = "conflict"

\* C7: after a reset event has been dispatched through the chain,
\* registered is true again with one coordinator and "conflict" with two.
C7_ResetRearms ==
    (last.by = "user" /\ last.action.type = "reset")
        => registered = (IF Len(chain) = 1 THEN "true" ELSE "conflict")

\* C8 as stated: a RegisteredEvent reduced while registered is false sets
\* registered to true whatever instance id it carries.
C8_FirstIdRegisters ==
    (/\ last.by = "reducer"
     /\ last.action.type = "middlewareRegistered"
     /\ last.was.registered = "false")
        => registered = "true"

\* C8 as amended: a RegisteredEvent sets registered to true only when it
\* carries the id of the coordinator that owns the slice and no conflict is
\* recorded, and to "conflict" when it carries any other id, also when it is
\* the first id seen; once "conflict", registered stays so until a reset.
C8_OwnIdRegisters ==
    /\ (last.by = "reducer" /\ last.action.type = "middlewareRegistered")
          => registered =
               (IF \/ last.was.registered = "conflict"
                   \/ last.action.val # Str(persistUid(SliceOwner))
                THEN "conflict" ELSE "true")
    /\ (/\ last.by = "reducer"
        /\ last.was.registered = "conflict"
        /\ last.action.type # "reset")
          => registered = "conflict"

\* C8's case: the first RegisteredEvent reduced carries another
\* coordinator's id
C8_Witness ==
    /\ last.by = "reducer"
    /\ last.action = middlewareRegistered(persistUid("B"))
    /\ last.was.registered = "false"
    /\ registered = "conflict"

\* C9 as stated: a dispatch to the constructed store that leaves the state
\* object the same issues no storage write, and one that changes it issues
\* a storage write for every registered key.
C9_Gating ==
    (Constructed /\ Dispatched)
        => /\ ~last.changed => last.writes = EmptyBag
           /\ last.changed => Keys \subseteq WrittenKeys(last.writes)

\* C9 as amended: a dispatch to the constructed store that leaves the state
\* object the same issues no storage write, and one that changes it issues
\* a storage write for every registered key whose serialize does not throw,
\* and none for a key whose serialize throws.
C9_GatingSerialized ==
    (Constructed /\ Dispatched)
        => /\ ~last.changed => last.writes = EmptyBag
           /\ last.changed => WrittenKeys(last.writes) = Keys \ throws

\* C9's case: an event changed the state while the serialize of one key
\* throws, and the other key was written
C9_Witness ==
    /\ Constructed /\ last.by = "user" /\ last.changed
    /\ throws # {}
    /\ WrittenKeys(last.writes) = Keys \ throws
    /\ WrittenKeys(last.writes) # {}

\* C10: when the read of key K has failed (the failure is with onError) and
\* the read of another key L succeeds, the HydrateEvent the middleware
\* dispatches for L sets hydrated and, L being untouched by organic events,
\* leaves L the read value merged against its untouched reduced value.
C10_ReadFailureIsolated ==
    \A K, L \in Keys :
        (/\ K # L
         /\ Error("read", K) \in errors
         /\ last.by = "middleware"
         /\ last.action.type = "hydrate" /\ last.action.key = L)
            => /\ hydrated
               /\ L \notin touched =>
                    state.slices[L] =
                      Merge(merge[L], last.action.val, sliceInitialState(L),
                            sliceInitialState(L))

\* C11: no failure of a storage read, a storage write, a serialize or a
\* deserialize is thrown out of a dispatch or rejects the promise a dispatch
\* returned, and every dispatch returns the event or a promise.
C11_NoFailureCrossesDispatch ==
    /\ \A e \in errors : e.to \notin {"throw", "reject"}
    /\ Dispatched => last.result \in {"action", "promise"}

\* C11's case: a dispatch whose write-back met a throwing serialize has
\* returned while a storage call has failed as well
C11_Witness ==
    /\ Constructed /\ last.by = "user" /\ last.changed
    /\ \E K \in throws : Error("serialize", K) \in errors
    /\ StorageErrors(errors) # {}

\* the state after the reducer has taken the events in order
RECURSIVE ReduceAll(_, _)
ReduceAll(st, events) ==
    IF events = <<>> THEN st
    ELSE ReduceAll(rootReducer(st, Head(events)), Tail(events))

\* C12: a dispatch to the constructed store that changes the state leaves the state what the reducer
\* made of the events it reduced, and when the serialize of a key throws in
\* its write-back the failure is with onError and the write of every other
\* key is issued; when a pending write is rejected the failure is with
\* onError, the state is unchanged and the other pending writes stay.
C12_WriteFailureIsolated ==
    [][/\ (Constructed /\ Dispatched' /\ last'.changed)
            => /\ state' = ReduceAll(state, last'.reduced)
               /\ \A K \in throws :
                     /\ \E e \in errors' :
                           e.kind = "serialize" /\ e.key = K /\ e.to = "onError"
                     /\ (Keys \ {K}) \subseteq WrittenKeys(last'.writes)
       /\ \A call \in BagToSet(writes) :
            (/\ writes' = writes (-) SetToBag({call})
             /\ storage'[call.key] # call.val)
                => /\ \E e \in errors' :
                        e.kind = "write" /\ e.key = call.key /\ e.to = "onError"
                   /\ state' = state
                   /\ storage' = storage]_vars

\* C12's case: the serialize of the first key threw in a write-back whose
\* write of the second key was issued, after a write had been rejected
C12_Witness ==
    /\ Constructed /\ last.by = "user" /\ last.changed
    /\ throws = {"counter"}
    /\ Error("serialize", "counter") \in errors
    /\ "counter2" \in WrittenKeys(last.writes)
    /\ \E e \in errors : e.kind = "write"

\* what the last dispatch returned is settled when the dispatch returns: a
\* value that is no promise (awaiting it continues at once), or the
\* Promise.all of no read
SettledAtReturn == last.result = "action" \/ last.reads = {}

\* C13: what a dispatch of startHydrate returns, when the middleware it
\* enters has registered keys, is a promise that is still pending when the
\* dispatch returns, no hydration attempt having settled yet.
C13_SignalAwaitsAttempts ==
    (/\ last.by \in {"enhancer", "user"}
     /\ last.action.type = "startHydrate"
     /\ internalRegistry(Entered) # {})
        => ~SettledAtReturn

\* the record with the fields a and b
AB(a, b) == Rec([f \in Fields |-> IF f = "a" THEN Num(a) ELSE Num(b)])

\* C14: shallowMerge on a record reduced returns a record that has, for a
\* field of inbound, the inbound value when original and reduced agree on
\* the field and the reduced value when they differ, and the reduced value
\* for a field inbound lacks; original {a:1,b:1}, reduced {a:1,b:2} and
\* inbound {a:9,b:9} give {a:9,b:2}.
C14_ShallowMergeFields ==
    (merging.strategy = "shallowMerge" /\ isPlainObject(merging.reduced))
        => /\ isPlainObject(merging.result)
           /\ ObjectKeys(merging.result) \subseteq Fields
           /\ \A f \in Fields :
                Get(merging.result, f) =
                    IF /\ f \in ObjectKeys(merging.inbound)
                       /\ Get(merging.original, f) = Get(merging.reduced, f)
                    THEN Get(merging.inbound, f)
                    ELSE Get(merging.reduced, f)
           /\ (/\ merging.original = AB(1, 1)
               /\ merging.reduced = AB(1, 2)
               /\ merging.inbound = AB(9, 9))
                 => merging.result = AB(9, 2)

\* C14's case: the example of the claim, merged
C14_Witness ==
    /\ merging.strategy = "shallowMerge"
    /\ merging.original = AB(1, 1)
    /\ merging.reduced = AB(1, 2)
    /\ merging.inbound = AB(9, 9)
    /\ merging.result = AB(9, 2)

\* C15: after a HydrateEvent for key K has been reduced, reducing the same
\* event again, with no event in between, leaves the state of K what the
\* first reduction made it.
C15_HydrateIdempotent ==
    \A K \in Keys :
        (/\ last.by = "reducer"
         /\ last.action.type = "hydrate" /\ last.action.key = K)
            => rootReducer(state, last.action).slices[K] = state.slices[K]

\* C15's case: a stored record has been merged into the record slice, and
\* the same HydrateEvent reduced again leaves it
C15_Witness ==
    /\ last.by = "reducer"
    /\ last.action = hydrate("counter2", Rec([value |-> Num(2)]))
    /\ state.slices["counter2"] = Rec([value |-> Num(2)])
    /\ merge["counter2"] = "twoLevelMerge"
    /\ rootReducer(state, last.action).slices["counter2"]
          = state.slices["counter2"]

\* how many times an event is in a sequence of events
Count(events, e) == Cardinality({n \in 1..Len(events) : events[n] = e})

\* C16: a dispatch of an event other than startHydrate brings the event to
\* the reducer exactly once and returns what the store's own dispatch
\* returned; so does the dispatch of a HydrateEvent by the middleware.
C16_ForwardsOnce ==
    (Dispatched /\ last.action.type # "startHydrate")
        => /\ Count(last.reduced, last.action) = 1
           /\ last.result = "action"

\* C17: reducing an event that is not a HydrateEvent for a slice's own key
\* leaves the slice what its own reducer returns for the state and the
\* event, and a HydrateEvent for another key leaves the slice unchanged.
C17_WrappedFrame ==
    [][\A name \in Keys :
          (/\ last'.by = "reducer"
           /\ ~(last'.action.type = "hydrate" /\ last'.action.key = name))
              => /\ state'.slices[name] =
                      sliceReducer(name, state.slices[name], last'.action)
                 /\ last'.action.type = "hydrate" =>
                      state'.slices[name] = state.slices[name]]_vars

\* C17's case: a HydrateEvent for counter2 has been reduced after an
\* organic event changed counter, and counter has its organic value
C17_Witness ==
    /\ last.by = "reducer"
    /\ last.action = hydrate("counter2", Rec([value |-> Num(2)]))
    /\ state.slices["counter2"] = Rec([value |-> Num(2)])
    /\ "counter" \in touched
    /\ state.slices["counter"] = Num(1)

\* C18: in the dispatch in which an instance's middleware is called for
\* the first time, the RegisteredEvent with the instance's id is reduced
\* once, and before the event that was dispatched is; the middleware an
\* enhancer's startHydrate enters is called for the first time then; and a
\* dispatch of an event other than reset reduces no RegisteredEvent of an
\* instance whose middleware had been called before.
C18_RegistersFirstOnce ==
    [][Dispatched' =>
         \A i \in Instances :
           LET reg == middlewareRegistered(persistUid(i))
           IN  /\ (~initialized[i] /\ initialized'[i])
                    => /\ Count(last'.reduced, reg) = 1
                       /\ \A n \in 1..Len(last'.reduced) :
                            last'.reduced[n] = last'.action
                              => \E m \in 1..(n - 1) : last'.reduced[m] = reg
               /\ (last'.by = "enhancer" /\ i = chain[Len(chain) - built])
                    => ~initialized[i] /\ initialized'[i]
               /\ (initialized[i] /\ last'.action.type # "reset")
                    => Count(last'.reduced, reg) = 0]_vars

\* C18's case: the outer of two enhancers has dispatched its startHydrate,
\* its middleware's first event, and the RegisteredEvent of its instance
\* was reduced once, before the startHydrate
C18_Witness ==
    /\ Len(chain) = 2 /\ Constructed
    /\ last.by = "enhancer"
    /\ initialized[chain[1]]
    /\ last.reduced = <<middlewareRegistered(persistUid(chain[1])), startHydrate>>

\* C19: a dispatch by the application to the constructed store adds the
\* writes it issues to the pending writes, replacing and dropping none,
\* and leaves the state and issues the writes it would with no write
\* pending.
C19_WritesNotCoalesced ==
    [][(Constructed /\ last'.by = "user")
          => LET alone == dispatch([World EXCEPT !.writes = EmptyBag], 1,
                                   last'.action)
             IN  /\ writes' = writes (+) last'.writes
                 /\ state' = alone.state
                 /\ last'.writes = alone.issuedWrites]_vars

\* C19's case: every write has settled and none was rejected, and storage
\* holds for counter what an earlier event wrote, not the latest state: the
\* write of the later event settled first
C19_Witness ==
    /\ Constructed /\ writes = EmptyBag
    /\ "counter" \notin throws
    /\ ~\E e \in errors : e.kind = "write"
    /\ "counter" \in touched
    /\ storage["counter"] # storage0["counter"]
    /\ storage["counter"] # Serialize(StateValue(state))

\* C20: a dispatch of startHydrate issues storage reads for exactly the
\* keys registered with the middleware it enters, and the dispatch of a
\* HydrateEvent by the middleware issues no storage read.
C20_HydrationQuiesces ==
    /\ (last.by \in {"enhancer", "user"} /\ last.action.type = "startHydrate")
          => last.reads = internalRegistry(Entered)
    /\ (last.by = "middleware" /\ last.action.type = "hydrate")
          => last.reads = {}

\* C21: the dispatch an enhancer makes during store construction issues a
\* storage write only for keys it issues a storage read for, and as long as
\* no organic event and no reset has changed the state, the HydrateEvent
\* the middleware dispatches for a key carries the value storage held for
\* the key before construction.
C21_ReadBeforeWrite ==
    /\ last.by = "enhancer" => WrittenKeys(last.writes) \subseteq last.reads
    /\ (/\ last.by = "middleware" /\ last.action.type = "hydrate"
        /\ touched = {} /\ ~resetDone)
          => last.action.val = Deserialize(storage0[last.action.key])

TypeOK ==
    /\ chain \in Chains
    /\ built \in 0..Len(chain)
    /\ state.persistor.registered \in {"false", "true", "conflict"}
    /\ BagCardinality(writes) <= 2 * MaxWrites

====
